---- MODULE Spec2Model ----
(***************************************************************************)
(* WeRoBot (werobot/robot.py): the handler registry of BaseRoBot           *)
(* (add_handler, get_handlers), its filter adapters (filter, key_click),   *)
(* its dispatch engine (get_reply) with the session store the engine reads *)
(* and writes, and its signature check (check_signature).                  *)
(*                                                                         *)
(* Python values are records [type, repr, n]: type is the Python type, repr*)
(* tells two values of one type apart, n is what bool() looks at (the      *)
(* length of a str, bytes or list, the value of an int, 0 for None, 1 for  *)
(* a plain object).                                                        *)
(***************************************************************************)
EXTENDS Integers, Sequences, FiniteSets, TLC

VARIABLES
    config,     \* self.config: TOKEN and SESSION_STORAGE
    handlers,   \* self._handlers: type tag -> list of (func, argc)
    raised,     \* the exception the last registration call raised, "none" if none
    lastCall,   \* history: the last registration call made and its arguments
    sigCall,    \* history: the last check_signature call and how it ended
    regLog,     \* history: the registrations that succeeded, in order
    store,      \* the session store's content: id -> session
    ndispatch,  \* get_reply calls started so far
    pc,         \* per caller: where its get_reply call stands
    message,    \* per caller: the argument of get_reply
    id,         \* per caller: local `id`
    session,    \* per caller: local `session`
    hlist,      \* per caller: local `handlers`, the resolved list
    idx,        \* per caller: position of the for loop in hlist (1-based)
    reply,      \* per caller: local `reply`
    result,     \* per caller: what get_reply returned
    outcome,    \* per caller: "pending", "returned", or "propagated" (an exception left get_reply)
    warnings,   \* per caller: logger.warning calls made by its current get_reply
    invoked,    \* history, per caller: the handler calls of its current get_reply
    ops         \* history, per caller: the store operations of its current get_reply

vars == <<config, handlers, raised, lastCall, sigCall, regLog, store, ndispatch, pc, message, id,
          session, hlist, idx, reply, result, outcome, warnings, invoked, ops>>

regVars == <<handlers, raised, lastCall, regLog>>
localVars == <<message, id, session, hlist, idx, reply, result, outcome, warnings, invoked, ops>>

----------------------------------------------------------------------------
(* Bounds of the model *)

\* successful registrations per run
MaxReg == 2
\* get_reply calls per run
MaxDispatch == 2

\* length of the token, timestamp and nonce strings of check_signature
MaxSigLen == 2

Procs == {1, 2}

----------------------------------------------------------------------------
(* Python values *)

PyNone == [type |-> "NoneType", repr |-> "None", n |-> 0]
PyStr(s) == [type |-> "str", repr |-> s, n |-> Len(s)]
PyInt(i) == [type |-> "int", repr |-> ToString(i), n |-> i]
PyEmptyList == [type |-> "list", repr |-> "[]", n |-> 0]
PyObject(cls) == [type |-> cls, repr |-> cls, n |-> 1]
\* the session dict after k in-place updates by handlers ({} when k = 0)
PyDict(k) == [type |-> "dict", repr |-> "session", n |-> k]

\* Python truth value testing, as `if x:` applies it
bool(v) == v.type # "NoneType" /\ v.n # 0

\* werobot.utils.to_binary on a str: its utf-8 bytes
to_binary(s) == [type |-> "bytes", repr |-> s, n |-> Len(s)]

Min(a, b) == IF a <= b THEN a ELSE b

----------------------------------------------------------------------------
(* The registry *)

message_types == <<"subscribe", "unsubscribe", "click", "view",
                   "text", "image", "link", "location", "voice">>

KnownTypes == {message_types[i] : i \in 1..Len(message_types)}
Keys == KnownTypes \cup {"all"}

\* BaseRoBot.__init__: the configuration it leaves
init_config(token, enable_session, session_storage) ==
    [TOKEN |-> token,
     SESSION_STORAGE |->
        IF enable_session /\ session_storage = PyNone
        THEN PyObject("FileStorage")
        ELSE session_storage]

\* BaseRoBot.__init__: the registry it leaves
init_handlers == [k \in Keys |-> <<>>]

(* What application code passes to add_handler.  kind "function" is a plain
   Python function taking nargs positional parameters; "callable_object" is
   callable but nothing inspect.getargspec can take apart, so that it raises
   TypeError (on every Python a builtin type such as str, or an
   operator.itemgetter; on Python 2 also a functools.partial and any instance
   with __call__); "not_callable" is any other value. *)
h0 == [name |-> "h0", kind |-> "function", nargs |-> 0]
h1 == [name |-> "h1", kind |-> "function", nargs |-> 1]
h2 == [name |-> "h2", kind |-> "function", nargs |-> 2]
h3 == [name |-> "h3", kind |-> "function", nargs |-> 3]
hBuiltin == [name |-> "builtin", kind |-> "callable_object", nargs |-> 1]
hString == [name |-> "string", kind |-> "not_callable", nargs |-> 0]

Functions == {h0, h1, h2, h3}
Objects == Functions \cup {hBuiltin, hString}

callable(func) == func.kind # "not_callable"

\* inspect.getargspec(func): raises TypeError unless func is a Python function
getargspec_raises(func) == func.kind # "function"

add_handler_setdefault(h, func, type) ==
    IF ~callable(func) THEN [error |-> "ValueError", handlers |-> h]
    ELSE IF getargspec_raises(func) THEN [error |-> "TypeError", handlers |-> h]
    ELSE [error |-> "none",
          handlers |-> [k \in DOMAIN h \cup {type} |->
                          IF k = type
                          THEN Append(IF k \in DOMAIN h THEN h[k] ELSE <<>>,
                                      <<func, func.nargs>>)
                          ELSE h[k]]]

(* BaseRoBot.add_handler on registry h: the exception it raises ("none" if
   none) and the registry it leaves.  `self._handlers[type]` is looked up
   before the argument of append is evaluated, so an unknown type raises
   KeyError before getargspec is reached. *)
add_handler_result(h, func, type) ==
    IF ~callable(func) THEN [error |-> "ValueError", handlers |-> h]
    ELSE IF type \notin DOMAIN h THEN [error |-> "KeyError", handlers |-> h]
    ELSE IF getargspec_raises(func) THEN [error |-> "TypeError", handlers |-> h]
    ELSE [error |-> "none",
          handlers |-> [h EXCEPT ![type] = Append(@, <<func, func.nargs>>)]]

get_handlers_all_first(h, type) == h["all"] \o h[type]

\* BaseRoBot.get_handlers
get_handlers(h, type) == h[type] \o h["all"]

----------------------------------------------------------------------------
(* The session store: get(id) creates the default session if absent *)

session_get(st, key) == IF key \in DOMAIN st THEN st[key] ELSE PyDict(0)

store_after_get(st, key) ==
    IF key \in DOMAIN st THEN st
    ELSE [k \in DOMAIN st \cup {key} |-> IF k = key THEN PyDict(0) ELSE st[k]]

store_after_set(st, key, val) ==
    [k \in DOMAIN st \cup {key} |-> IF k = key THEN val ELSE st[k]]

----------------------------------------------------------------------------
(* The handlers' own code: what each function does when called *)

(* def h0(): return 'hi'
   def h1(message): 'pong' for text, '' for image, [] for link,
                    'clicked' for click, raises for anything else
   def h2(message, session): first counts in the session when there is one;
                    then 0 for text, 'ok' for image, None for link,
                    'menu' for click, raises for anything else
   def h3(a, b, c): never callable with the two arguments get_reply has *)
handler_returns(func, mtype) ==
    CASE func.name = "h0" -> PyStr("hi")
      [] func.name = "h1" /\ mtype = "text" -> PyStr("pong")
      [] func.name = "h1" /\ mtype = "image" -> PyStr("")
      [] func.name = "h1" /\ mtype = "link" -> PyEmptyList
      [] func.name = "h1" /\ mtype = "click" -> PyStr("clicked")
      [] func.name = "h2" /\ mtype = "text" -> PyInt(0)
      [] func.name = "h2" /\ mtype = "image" -> PyStr("ok")
      [] func.name = "h2" /\ mtype = "click" -> PyStr("menu")
      [] OTHER -> PyNone

handler_body_raises(func, mtype) ==
    func.name \in {"h1", "h2"} /\ mtype \notin {"text", "image", "link", "click"}

\* the session object after the body of func ran on it (h2 updates it in
\* place before anything else, so also when it goes on to raise)
handler_session_after(func, sess) ==
    IF func.name = "h2" /\ sess.type = "dict" THEN PyDict(sess.n + 1) ELSE sess

\* handler(*args): a TypeError when the argument count is not the function's
call_raises(func, args, mtype) ==
    Len(args) # func.nargs \/ handler_body_raises(func, mtype)

----------------------------------------------------------------------------
(* The filter adapters: filter and key_click *)

(* What application code passes to filter as a target: a string literal, a
   compiled regular expression (of a literal pattern, so that its match() is
   a test at the start of the text), or a value that is neither. *)
LitPing == [kind |-> "str", value |-> "ping"]
LitPong == [kind |-> "str", value |-> "pong"]
RxPing == [kind |-> "regex", value |-> "ping"]
BadTarget == [kind |-> "int", value |-> "5"]

\* isinstance(target_content, six.string_types)
is_string(target) == target.kind = "str"

\* hasattr(target_content, "match") and callable(target_content.match)
has_match(target) == target.kind = "regex"

\* werobot.utils.to_text on a string target: the text it denotes
to_text(target) == target.value

\* re.match: the pattern matches at the start of the text
regex_match(target, text) ==
    /\ Len(text) >= Len(target.value)
    /\ SubSeq(text, 1, Len(target.value)) = target.value

check_content_prefix(target, msg) == regex_match(target, msg.content)

\* lines 155-161: _check_content(message) for the target of the filter
check_content(target, msg) ==
    IF is_string(target)
    THEN msg.content = to_text(target)
    ELSE regex_match(target, msg.content)

key_matches_any(key, msg) == msg.key = msg.key

\* line 133: `message.key == key`
key_matches(key, msg) == msg.key = key

\* lines 172-176: the function `_f` that filter(target)(f) registers
filter_wrapper(target, f) ==
    [name |-> "_f", kind |-> "function", nargs |-> 2,
     target |-> target, wrapped |-> f, argc |-> f.nargs]

\* lines 131-134: the function `onclick` that key_click(key)(f) registers
key_click_wrapper(key, f) ==
    [name |-> "onclick", kind |-> "function", nargs |-> 2,
     key |-> key, wrapped |-> f, argc |-> f.nargs]

is_wrapper(func) == func.name \in {"_f", "onclick"}

\* the attribute the wrapper reads is missing from the message: AttributeError
wrapper_attr_missing(func, msg) ==
    IF func.name = "_f" THEN "content" \notin DOMAIN msg
    ELSE "key" \notin DOMAIN msg

\* the condition under which the wrapper calls the function it wraps
wrapper_matches(func, msg) ==
    IF func.name = "_f" THEN check_content(func.target, msg)
    ELSE key_matches(func.key, msg)

wrapper_inner_args_full(msg, sess, argc) == <<msg, sess>>

\* lines 134 and 176: f is called with [message, session][:argc]
wrapper_inner_args(msg, sess, argc) == SubSeq(<<msg, sess>>, 1, Min(argc, 2))

(* A call of func with args made by get_reply while its local `session` is sess:
   whether it raises, what it returns, the session object afterwards, and
   the calls the function itself made of a function it wraps.  A wrapper has
   the signature (message, session=None). *)
call_plain(func, args, msg, sess) ==
    [raised |-> call_raises(func, args, msg.type),
     ret |-> IF call_raises(func, args, msg.type) THEN PyNone
             ELSE handler_returns(func, msg.type),
     after |-> IF Len(args) = func.nargs /\ Len(args) >= 2
               THEN handler_session_after(func, sess)
               ELSE sess,
     inner |-> <<>>]

call_wrapper(func, args, msg, sess) ==
    IF Len(args) \notin {1, 2} \/ wrapper_attr_missing(func, msg)
    THEN [raised |-> TRUE, ret |-> PyNone, after |-> sess, inner |-> <<>>]
    ELSE IF ~wrapper_matches(func, msg)
    THEN [raised |-> FALSE, ret |-> PyNone, after |-> sess, inner |-> <<>>]
    ELSE LET bound == IF Len(args) = 2 THEN args[2] ELSE PyNone
             inner_args == wrapper_inner_args(args[1], bound, func.argc)
             r == call_plain(func.wrapped, inner_args, msg,
                             IF Len(args) = 2 THEN sess ELSE PyNone)
         IN [raised |-> r.raised, ret |-> r.ret,
             after |-> IF Len(args) = 2 THEN r.after ELSE sess,
             inner |-> <<[func |-> func.wrapped, args |-> inner_args]>>]

call_result(func, args, msg, sess) ==
    IF is_wrapper(func) THEN call_wrapper(func, args, msg, sess)
    ELSE call_plain(func, args, msg, sess)

filter_single_result_ignore(h, target, f) ==
    IF ~(is_string(target) \/ has_match(target))
    THEN [error |-> "none", handlers |-> h]
    ELSE IF getargspec_raises(f)
    THEN [error |-> "TypeError", handlers |-> h]
    ELSE add_handler_result(h, filter_wrapper(target, f), "text")

(* filter(target)(f) with one target, on registry h: lines 150-163 check the
   target, line 171 takes f apart, line 172 registers _f for 'text' *)
filter_single_result(h, target, f) ==
    IF ~(is_string(target) \/ has_match(target))
    THEN [error |-> "TypeError", handlers |-> h]
    ELSE IF getargspec_raises(f)
    THEN [error |-> "TypeError", handlers |-> h]
    ELSE add_handler_result(h, filter_wrapper(target, f), "text")

\* lines 166-169: `for x in args: self.filter(x)(f)`, from the i-th target on
RECURSIVE filter_each(_, _, _, _)
filter_each(h, args, f, i) ==
    IF i > Len(args) THEN [error |-> "none", handlers |-> h]
    ELSE LET r == filter_single_result(h, args[i], f)
         IN IF r.error # "none" THEN r
            ELSE filter_each(r.handlers, args, f, i + 1)

filter_result_first_only(h, args, f) ==
    IF Len(args) = 0 THEN [error |-> "IndexError", handlers |-> h]
    ELSE filter_single_result(h, args[1], f)

filter_result_atomic(h, args, f) ==
    IF Len(args) = 0 THEN [error |-> "IndexError", handlers |-> h]
    ELSE IF Len(args) > 1
    THEN IF filter_each(h, args, f, 1).error # "none"
         THEN [error |-> filter_each(h, args, f, 1).error, handlers |-> h]
         ELSE filter_each(h, args, f, 1)
    ELSE filter_single_result(h, args[1], f)

(* filter applied to f for the targets args, on registry h: the exception
   raised ("none" if none) and
   the registry left.  With no target at all `args[0]` raises IndexError. *)
filter_result(h, args, f) ==
    IF Len(args) > 1 THEN filter_each(h, args, f, 1)
    ELSE IF Len(args) = 0 THEN [error |-> "IndexError", handlers |-> h]
    ELSE filter_single_result(h, args[1], f)

\* key_click(key)(f) on registry h: line 129 takes f apart, line 131 registers
key_click_result(h, key, f) ==
    IF getargspec_raises(f) THEN [error |-> "TypeError", handlers |-> h]
    ELSE add_handler_result(h, key_click_wrapper(key, f), "click")

\* the registrations a call added: the entries of `after` beyond those of `before`
added_entries(before, after) ==
    LET t == CHOOSE k \in DOMAIN after : Len(after[k]) > Len(before[k])
    IN IF \A k \in DOMAIN after : Len(after[k]) = Len(before[k]) THEN <<>>
       ELSE [i \in 1..(Len(after[t]) - Len(before[t])) |->
               [type |-> t, entry |-> after[t][Len(before[t]) + i]]]

----------------------------------------------------------------------------
(* check_signature *)

(* The strings check_signature works on are kept by their code points, which
   is what sorting looks at: repr is the sequence of code points.  A string
   that is the hexadecimal rendering of a SHA-1 digest is kept by what was
   digested: repr is the digested bytes and hex tells the case of the
   rendering ("no" for a string that is no digest).  SHA-1 itself is not
   computed: two digests are equal exactly when the digested bytes are. *)
PyChars(cs) == [type |-> "str", repr |-> cs, n |-> Len(cs), hex |-> "no"]

SigChars == {49, 50}

SigStrings ==
    UNION {[1..l -> SigChars] : l \in 0..MaxSigLen}

\* str < str in Python: by code point, a proper prefix first
RECURSIVE str_less(_, _)
str_less(a, b) ==
    IF Len(b) = 0 THEN FALSE
    ELSE IF Len(a) = 0 THEN TRUE
    ELSE IF a[1] # b[1] THEN a[1] < b[1]
    ELSE str_less(Tail(a), Tail(b))

\* the list with x put in its place among the sorted elements of l
RECURSIVE insert_sorted(_, _)
insert_sorted(l, x) ==
    IF Len(l) = 0 THEN <<x>>
    ELSE IF str_less(x.repr, l[1].repr) THEN <<x>> \o l
    ELSE <<l[1]>> \o insert_sorted(Tail(l), x)

list_sort_none(l) == l

\* line 226: sign.sort()
RECURSIVE list_sort(_)
list_sort(l) ==
    IF Len(l) = 0 THEN <<>>
    ELSE insert_sorted(list_sort(Tail(l)), l[1])

\* line 227: ''.join(sign)
RECURSIVE str_join(_)
str_join(l) ==
    IF Len(l) = 0 THEN <<>> ELSE l[1].repr \o str_join(Tail(l))

\* line 228: hashlib.sha1(sign).hexdigest(), lowercase hexadecimal
sha1_hexdigest(bytes) ==
    [type |-> "str", repr |-> bytes.repr, n |-> 40, hex |-> "lower"]

\* the same digest written with uppercase hexadecimal digits
hex_upper(digest) == [digest EXCEPT !.hex = "upper"]

(* check_signature, lines 224-229: the exception raised ("none" if none) and
   the value returned.  A token that is not a string (None when the robot
   was constructed without one) makes sort() or ''.join() raise TypeError. *)
check_signature_result(token, timestamp, nonce, signature) ==
    IF \E x \in {token, timestamp, nonce} : x.type # "str"
    THEN [error |-> "TypeError", value |-> PyNone]
    ELSE [error |-> "none",
          value |-> sha1_hexdigest(to_binary(
                        str_join(list_sort(<<token, timestamp, nonce>>))))
                      = signature]

----------------------------------------------------------------------------
(* get_reply, statement by statement *)

hasattr_source(msg) == "source" \in DOMAIN msg

lookup_guard_source_only(session_storage, msg) == hasattr_source(msg)

\* line 208: `if session_storage and hasattr(message, "source")`
lookup_guard(session_storage, msg) ==
    bool(session_storage) /\ hasattr_source(msg)

build_args_full(msg, sess, args_count) == <<msg, sess>>

\* line 215: `[message, session][:args_count]`
build_args(msg, sess, args_count) ==
    SubSeq(<<msg, sess>>, 1, Min(args_count, 2))

\* line 217: `if session_storage and id`
persist_guard(session_storage, key) == bool(session_storage) /\ bool(key)

is_reply_not_none(r) == r.type # "NoneType"

\* line 219: `if reply`
is_reply(r) == bool(r)

loop_element_reversed(hl, i) == hl[Len(hl) + 1 - i]

\* line 214: `for handler, args_count in handlers` takes the elements in list order
loop_element(hl, i) == hl[i]

\* line 214: the for loop moves to the next element
loop_next(i) == i + 1

walked_list_live(p) == get_handlers(handlers, message[p].type)

\* lines 212-214: the for loop walks the list that line 212 built, a new list
\* object (`+` of two lists) that no registration can reach
walked_list(p) == hlist[p]

persist_key_shared(p) == to_binary("u1")

\* line 218: the key `session_storage[id] = session` writes under
persist_key(p) == id[p]

\* lines 221-222: the except clause leaves the store alone
except_store(p) == store

persist_value_stale(p) == session_get(store, id[p])

\* line 218: what `session_storage[id] = session` writes
persist_value(p) == session[p]

except_reraise == "propagated"

\* lines 221-222: the bare except logs and falls through to the end
except_outcome == "returned"

Idle(p) == pc[p] = "idle"

\* get_reply entered, lines 204-210
get_reply_begin(p, m) ==
    /\ pc[p] = "idle"
    /\ ndispatch < MaxDispatch
    /\ ndispatch' = ndispatch + 1
    /\ message' = [message EXCEPT ![p] = m]
    /\ IF lookup_guard(config.SESSION_STORAGE, m)
       THEN /\ id' = [id EXCEPT ![p] = to_binary(m.source)]
            /\ session' = [session EXCEPT
                             ![p] = session_get(store, to_binary(m.source))]
            /\ store' = store_after_get(store, to_binary(m.source))
            /\ ops' = [ops EXCEPT ![p] =
                         <<[op |-> "get", key |-> to_binary(m.source),
                            val |-> session_get(store, to_binary(m.source)),
                            at |-> 0]>>]
       ELSE /\ id' = [id EXCEPT ![p] = PyNone]
            /\ session' = [session EXCEPT ![p] = PyNone]
            /\ store' = store
            /\ ops' = [ops EXCEPT ![p] = <<>>]
    /\ hlist' = [hlist EXCEPT ![p] = <<>>]
    /\ idx' = [idx EXCEPT ![p] = 1]
    /\ reply' = [reply EXCEPT ![p] = PyNone]
    /\ result' = [result EXCEPT ![p] = PyNone]
    /\ outcome' = [outcome EXCEPT ![p] = "pending"]
    /\ warnings' = [warnings EXCEPT ![p] = 0]
    /\ invoked' = [invoked EXCEPT ![p] = <<>>]
    /\ pc' = [pc EXCEPT ![p] = "resolve"]
    /\ UNCHANGED <<config, sigCall, regVars>>

\* line 212
get_reply_resolve(p) ==
    /\ pc[p] = "resolve"
    /\ hlist' = [hlist EXCEPT ![p] = get_handlers(handlers, message[p].type)]
    /\ idx' = [idx EXCEPT ![p] = 1]
    /\ pc' = [pc EXCEPT ![p] = "loop"]
    /\ UNCHANGED <<config, sigCall, regVars, store, ndispatch, message, id, session,
                   reply, result, outcome, warnings, invoked, ops>>

\* lines 214-216: the next handler is called
get_reply_invoke(p) ==
    /\ pc[p] = "loop"
    /\ idx[p] <= Len(walked_list(p))
    /\ LET handler == loop_element(walked_list(p), idx[p])[1]
           args_count == loop_element(walked_list(p), idx[p])[2]
           args == build_args(message[p], session[p], args_count)
           r == call_result(handler, args, message[p], session[p])
       IN /\ invoked' = [invoked EXCEPT ![p] = Append(@,
                            [entry |-> loop_element(walked_list(p), idx[p]),
                             args |-> args,
                             before |-> session[p], after |-> r.after,
                             raised |-> r.raised, ret |-> r.ret,
                             inner |-> r.inner])]
          /\ session' = [session EXCEPT ![p] = r.after]
          /\ IF r.raised
             THEN /\ pc' = [pc EXCEPT ![p] = "except"]
                  /\ reply' = reply
             ELSE /\ pc' = [pc EXCEPT ![p] = "persist"]
                  /\ reply' = [reply EXCEPT ![p] = r.ret]
    /\ UNCHANGED <<config, sigCall, regVars, store, ndispatch, message, id, hlist, idx,
                   result, outcome, warnings, ops>>

\* lines 217-218
get_reply_persist(p) ==
    /\ pc[p] = "persist"
    /\ IF persist_guard(config.SESSION_STORAGE, id[p])
       THEN /\ store' = store_after_set(store, persist_key(p), persist_value(p))
            /\ ops' = [ops EXCEPT ![p] = Append(@,
                         [op |-> "set", key |-> persist_key(p),
                          val |-> persist_value(p),
                          at |-> Len(invoked[p])])]
       ELSE UNCHANGED <<store, ops>>
    /\ pc' = [pc EXCEPT ![p] = "check"]
    /\ UNCHANGED <<config, sigCall, regVars, ndispatch, message, id, session, hlist, idx,
                   reply, result, outcome, warnings, invoked>>

\* lines 219-220, and the loop going on otherwise
get_reply_check(p) ==
    /\ pc[p] = "check"
    /\ IF is_reply(reply[p])
       THEN /\ result' = [result EXCEPT ![p] = reply[p]]
            /\ outcome' = [outcome EXCEPT ![p] = "returned"]
            /\ pc' = [pc EXCEPT ![p] = "done"]
            /\ idx' = idx
       ELSE /\ idx' = [idx EXCEPT ![p] = loop_next(@)]
            /\ pc' = [pc EXCEPT ![p] = "loop"]
            /\ UNCHANGED <<result, outcome>>
    /\ UNCHANGED <<config, sigCall, regVars, store, ndispatch, message, id, session,
                   hlist, reply, warnings, invoked, ops>>

\* the for loop ends with no reply: get_reply falls off its end, returning None
get_reply_exhausted(p) ==
    /\ pc[p] = "loop"
    /\ idx[p] > Len(walked_list(p))
    /\ result' = [result EXCEPT ![p] = PyNone]
    /\ outcome' = [outcome EXCEPT ![p] = "returned"]
    /\ pc' = [pc EXCEPT ![p] = "done"]
    /\ UNCHANGED <<config, sigCall, regVars, store, ndispatch, message, id, session,
                   hlist, idx, reply, warnings, invoked, ops>>

\* lines 221-222
get_reply_except(p) ==
    /\ pc[p] = "except"
    /\ warnings' = [warnings EXCEPT ![p] = @ + 1]
    /\ result' = [result EXCEPT ![p] = PyNone]
    /\ outcome' = [outcome EXCEPT ![p] = except_outcome]
    /\ pc' = [pc EXCEPT ![p] = "done"]
    /\ store' = except_store(p)
    /\ UNCHANGED <<config, sigCall, regVars, ndispatch, message, id, session,
                   hlist, idx, reply, invoked, ops>>

NoMessage == [type |-> "none"]

\* _post_handle, lines 292-298: the caller takes the reply; get_reply's frame is gone
post_handle_return(p) ==
    /\ pc[p] = "done"
    /\ pc' = [pc EXCEPT ![p] = "idle"]
    /\ message' = [message EXCEPT ![p] = NoMessage]
    /\ id' = [id EXCEPT ![p] = PyNone]
    /\ session' = [session EXCEPT ![p] = PyNone]
    /\ hlist' = [hlist EXCEPT ![p] = <<>>]
    /\ idx' = [idx EXCEPT ![p] = 1]
    /\ reply' = [reply EXCEPT ![p] = PyNone]
    /\ result' = [result EXCEPT ![p] = PyNone]
    /\ outcome' = [outcome EXCEPT ![p] = "pending"]
    /\ warnings' = [warnings EXCEPT ![p] = 0]
    /\ invoked' = [invoked EXCEPT ![p] = <<>>]
    /\ ops' = [ops EXCEPT ![p] = <<>>]
    /\ UNCHANGED <<config, sigCall, regVars, store, ndispatch>>

\* add_handler(func, type), lines 188-195
add_handler(func, type) ==
    /\ Len(regLog) < MaxReg
    /\ LET r == add_handler_result(handlers, func, type)
       IN /\ handlers' = r.handlers
          /\ raised' = r.error
          /\ regLog' = IF r.error = "none"
                       THEN Append(regLog, [type |-> type,
                                            entry |-> <<func, func.nargs>>])
                       ELSE regLog
    /\ lastCall' = [api |-> "add_handler"]
    /\ UNCHANGED <<config, sigCall, store, ndispatch, pc, localVars>>

\* the decorator robot.filter, with targets args, applied to f, lines 139-179
filter(args, f) ==
    /\ Len(regLog) + Len(args) <= MaxReg
    /\ LET r == filter_result(handlers, args, f)
       IN /\ handlers' = r.handlers
          /\ raised' = r.error
          /\ regLog' = regLog \o added_entries(handlers, r.handlers)
    /\ lastCall' = [api |-> "filter", args |-> args, f |-> f]
    /\ UNCHANGED <<config, sigCall, store, ndispatch, pc, localVars>>

\* @robot.key_click(key) applied to f, lines 123-137
key_click(key, f) ==
    /\ Len(regLog) < MaxReg
    /\ LET r == key_click_result(handlers, key, f)
       IN /\ handlers' = r.handlers
          /\ raised' = r.error
          /\ regLog' = regLog \o added_entries(handlers, r.handlers)
    /\ lastCall' = [api |-> "key_click", key |-> key, f |-> f]
    /\ UNCHANGED <<config, sigCall, store, ndispatch, pc, localVars>>

\* check_signature(timestamp, nonce, signature), lines 224-229
check_signature(timestamp, nonce, signature) ==
    /\ LET r == check_signature_result(config.TOKEN, timestamp, nonce, signature)
       IN sigCall' = [state |-> IF r.error = "none" THEN "returned" ELSE "raised",
                      timestamp |-> timestamp, nonce |-> nonce,
                      signature |-> signature,
                      error |-> r.error, value |-> r.value]
    /\ UNCHANGED <<config, regVars, store, ndispatch, pc, localVars>>

----------------------------------------------------------------------------
(* Specifications *)

\* the state BaseRoBot.__init__ leaves, for the constructor arguments it may get
Constructed(enable_choices, storage_choices) ==
    /\ \E enable_session \in enable_choices, session_storage \in storage_choices :
          config = init_config(PyStr("token"), enable_session, session_storage)
    /\ handlers = init_handlers
    /\ raised = "none"
    /\ lastCall = [api |-> "none"]
    /\ sigCall = [state |-> "none"]
    /\ regLog = <<>>
    /\ store = <<>>
    /\ ndispatch = 0
    /\ pc = [p \in Procs |-> "idle"]
    /\ message = [p \in Procs |-> NoMessage]
    /\ id = [p \in Procs |-> PyNone]
    /\ session = [p \in Procs |-> PyNone]
    /\ hlist = [p \in Procs |-> <<>>]
    /\ idx = [p \in Procs |-> 1]
    /\ reply = [p \in Procs |-> PyNone]
    /\ result = [p \in Procs |-> PyNone]
    /\ outcome = [p \in Procs |-> "pending"]
    /\ warnings = [p \in Procs |-> 0]
    /\ invoked = [p \in Procs |-> <<>>]
    /\ ops = [p \in Procs |-> <<>>]

Init == Constructed(BOOLEAN, {PyNone, PyObject("MemoryStorage")})

\* the robot as constructed by default: sessions in a FileStorage
DefaultInit == Constructed({TRUE}, {PyNone})

\* the messages dispatched: four of the nine types, with and without a sender
Messages ==
    {[type |-> t] : t \in {"text", "image", "link", "voice"}}
    \cup {[type |-> t, source |-> s] :
            t \in {"text", "image", "link", "voice"}, s \in {"", "u1"}}

(* One caller; handlers are registered between dispatches *)
Next ==
    \/ \E f \in Functions, t \in {"text", "all"} : Idle(1) /\ add_handler(f, t)
    \/ \E m \in Messages : get_reply_begin(1, m)
    \/ get_reply_resolve(1)
    \/ get_reply_invoke(1)
    \/ get_reply_persist(1)
    \/ get_reply_check(1)
    \/ get_reply_exhausted(1)
    \/ get_reply_except(1)
    \/ post_handle_return(1)

Spec == Init /\ [][Next]_vars

(* Registration alone, with every type tag and every kind of argument *)
RegNext ==
    \E f \in Objects, t \in Keys \cup {"video"} : add_handler(f, t)

SpecReg == Init /\ [][RegNext]_vars

\* the messages of concurrent callers: two senders
ConcMessages ==
    {[type |-> t, source |-> "u1"] : t \in {"text", "image"}}
    \cup {[type |-> "text", source |-> "u2"]}

(* Concurrent callers, one get_reply each at a time (one per HTTP request);
   the engine takes no lock, so their statements interleave freely, and so do
   registrations.  A request goes to the second caller only while the first
   is busy. *)
ConcNext ==
    \/ \E f \in {h2, h3}, t \in {"text", "all"} : add_handler(f, t)
    \/ \E m \in ConcMessages : get_reply_begin(1, m)
    \/ \E m \in ConcMessages : ~Idle(1) /\ get_reply_begin(2, m)
    \/ \E p \in Procs : get_reply_resolve(p)
    \/ \E p \in Procs : get_reply_invoke(p)
    \/ \E p \in Procs : get_reply_persist(p)
    \/ \E p \in Procs : get_reply_check(p)
    \/ \E p \in Procs : get_reply_exhausted(p)
    \/ \E p \in Procs : get_reply_except(p)
    \/ \E p \in Procs : post_handle_return(p)

SpecConc == DefaultInit /\ [][ConcNext]_vars

\* the target lists filter is applied with: none, one, several; valid and not
TargetLists ==
    {<<>>, <<LitPing>>, <<RxPing>>, <<BadTarget>>,
     <<LitPing, LitPong>>, <<LitPing, BadTarget>>, <<BadTarget, LitPing>>}

\* text messages with a content and click events with a key
FilterMessages ==
    {[type |-> "text", source |-> "u1", content |-> c] :
        c \in {"ping", "pong", "ping pong"}}
    \cup {[type |-> "click", source |-> "u1", key |-> k] :
            k \in {"MENU_A", "MENU_B"}}
    \cup {[type |-> "text", content |-> "ping"]}

(* The filter adapters: the decorators run when the application module is
   loaded, before the first message is dispatched; one caller *)
FilterNext ==
    \/ \E args \in TargetLists, f \in {h0, h1, h2, hBuiltin} :
          ndispatch = 0 /\ filter(args, f)
    \/ \E f \in {h1, h2, h3, hBuiltin} : ndispatch = 0 /\ key_click("MENU_A", f)
    \/ ndispatch = 0 /\ add_handler(h2, "all")
    \/ \E m \in FilterMessages : get_reply_begin(1, m)
    \/ get_reply_resolve(1)
    \/ get_reply_invoke(1)
    \/ get_reply_persist(1)
    \/ get_reply_check(1)
    \/ get_reply_exhausted(1)
    \/ get_reply_except(1)
    \/ post_handle_return(1)

SpecFilter == DefaultInit /\ [][FilterNext]_vars

\* the robot constructed with a token of its own, or with none (token=None)
SigInit ==
    /\ \E token \in {PyNone} \cup {PyChars(cs) : cs \in SigStrings} :
          config = init_config(token, TRUE, PyNone)
    /\ handlers = init_handlers
    /\ raised = "none"
    /\ lastCall = [api |-> "none"]
    /\ sigCall = [state |-> "none"]
    /\ regLog = <<>>
    /\ store = <<>>
    /\ ndispatch = 0
    /\ pc = [p \in Procs |-> "idle"]
    /\ message = [p \in Procs |-> NoMessage]
    /\ id = [p \in Procs |-> PyNone]
    /\ session = [p \in Procs |-> PyNone]
    /\ hlist = [p \in Procs |-> <<>>]
    /\ idx = [p \in Procs |-> 1]
    /\ reply = [p \in Procs |-> PyNone]
    /\ result = [p \in Procs |-> PyNone]
    /\ outcome = [p \in Procs |-> "pending"]
    /\ warnings = [p \in Procs |-> 0]
    /\ invoked = [p \in Procs |-> <<>>]
    /\ ops = [p \in Procs |-> <<>>]

\* the code points of a constructor token, none for no token
TokenChars(token) == IF token.type = "str" THEN token.repr ELSE <<>>

(* The signatures a request may carry: the digest of the three strings joined
   in each of the six orders, the digest of timestamp and nonce alone, that
   one in uppercase, and strings that are no digest *)
Signatures(token, timestamp, nonce) ==
    LET parts == <<TokenChars(token), timestamp.repr, nonce.repr>>
    IN {sha1_hexdigest(to_binary(parts[i] \o parts[j] \o parts[k])) :
            i, j, k \in 1..3}
       \cup {sha1_hexdigest(to_binary(timestamp.repr \o nonce.repr)),
             hex_upper(sha1_hexdigest(to_binary(timestamp.repr \o nonce.repr))),
             PyChars(<<>>), timestamp}

(* The signature check alone, once per robot (it reads the token and changes
   nothing): request.query gives timestamp, nonce and signature as strings,
   whatever the request *)
SigNext ==
    /\ sigCall.state = "none"
    /\ \E ts \in SigStrings, nc \in SigStrings :
          \E sig \in Signatures(config.TOKEN, PyChars(ts), PyChars(nc)) :
              check_signature(PyChars(ts), PyChars(nc), sig)

SpecSig == SigInit /\ [][SigNext]_vars

----------------------------------------------------------------------------
(* What the claims are stated with *)

\* the entries registered under type tag T, in registration order
RegisteredUnder(log, T) ==
    LET sel == SelectSeq(log, LAMBDA r : r.type = T)
    IN [i \in 1..Len(sel) |-> sel[i].entry]

\* the list a dispatch of a message of type T is to walk
ExpectedList(T) == RegisteredUnder(regLog, T) \o RegisteredUnder(regLog, "all")

CalledEntries(p) == [k \in 1..Len(invoked[p]) |-> invoked[p][k].entry]

InFlight(p) == pc[p] # "idle"

SomeCallRaised(p) == \E k \in 1..Len(invoked[p]) : invoked[p][k].raised

\* empty as the claims list it: None, the empty string, 0, the empty list
IsEmptyValue(v) == v \in {PyNone, PyStr(""), PyInt(0), PyEmptyList}

Configured == config.SESSION_STORAGE # PyNone

OpsOf(p, kind) == SelectSeq(ops[p], LAMBDA o : o.op = kind)

ReturnedCalls(p) == SelectSeq(invoked[p], LAMBDA c : ~c.raised)

----------------------------------------------------------------------------
(* C1: after any sequence of successful registrations, get_handlers(T) is, for
   every known type tag T, the handlers registered under T in registration
   order followed by those registered under 'all' in registration order; for
   a T with no handlers of its own it is exactly the 'all' list. *)
C1_ResolveOrder ==
    \A T \in KnownTypes :
        /\ get_handlers(handlers, T)
             = RegisteredUnder(regLog, T) \o RegisteredUnder(regLog, "all")
        /\ RegisteredUnder(regLog, T) = <<>>
             => get_handlers(handlers, T) = RegisteredUnder(regLog, "all")

C1_Witness ==
    /\ Len(regLog) >= 2
    /\ RegisteredUnder(regLog, "text") # <<>>
    /\ RegisteredUnder(regLog, "all") # <<>>
    /\ RegisteredUnder(regLog, "image") = <<>>
    /\ get_handlers(handlers, "image") = handlers["all"]
    /\ Len(get_handlers(handlers, "text")) = 2

(* C2: in every dispatch the handlers invoked so far are a prefix of the
   resolved list, in its order, none skipped, none twice, none from outside;
   at the head of the loop they are exactly the elements before the loop's
   position. *)
C2_InvokedIsPrefix ==
    \A p \in Procs :
        pc[p] \notin {"idle", "resolve"} =>
            /\ Len(invoked[p]) <= Len(ExpectedList(message[p].type))
            /\ CalledEntries(p)
                 = SubSeq(ExpectedList(message[p].type), 1, Len(invoked[p]))
            /\ pc[p] = "loop" => Len(invoked[p]) = idx[p] - 1

C2_Witness ==
    \E p \in Procs :
        /\ pc[p] = "done"
        /\ Len(invoked[p]) = 2
        /\ invoked[p][1].entry # invoked[p][2].entry
        /\ RegisteredUnder(regLog, message[p].type) # <<>>
        /\ RegisteredUnder(regLog, "all") # <<>>

(* C3: when no handler raises, the dispatch returns the result of the first
   handler of the resolved list whose result is non-empty and invokes none
   after it, whatever its arity; None, '', 0 and [] count as no reply; when
   every result is empty, or the list is empty, it returns empty. *)
C3_FirstReplyWins ==
    \A p \in Procs :
        (pc[p] = "done" /\ ~SomeCallRaised(p)) =>
            LET hl == ExpectedList(message[p].type)
                ret(k) == handler_returns(hl[k][1], message[p].type)
                W == {k \in 1..Len(hl) : ~IsEmptyValue(ret(k))}
            IN /\ outcome[p] = "returned"
               /\ IF W = {}
                  THEN /\ result[p] = PyNone
                       /\ Len(invoked[p]) = Len(hl)
                  ELSE LET w == CHOOSE k \in W : \A j \in W : k <= j
                       IN /\ result[p] = ret(w)
                          /\ Len(invoked[p]) = w

C3_Witness ==
    \E p \in Procs :
        /\ pc[p] = "done"
        /\ ~SomeCallRaised(p)
        /\ Len(invoked[p]) = 2
        /\ Len(hlist[p]) = 2
        /\ invoked[p][1].entry[2] = 2
        /\ result[p] = PyStr("pong")

(* C4: when a handler raises, the dispatch returns empty, no handler after the
   raising one is invoked, one warning goes to the logger and nothing
   propagates to the caller, wherever in the list the raising handler stands. *)
C4_RaiseAbortsDispatch ==
    \A p \in Procs :
        SomeCallRaised(p) =>
            /\ invoked[p][Len(invoked[p])].raised
            /\ \A k \in 1..(Len(invoked[p]) - 1) : ~invoked[p][k].raised
            /\ pc[p] \in {"except", "done"}
            /\ pc[p] = "done" =>
                 /\ result[p] = PyNone
                 /\ outcome[p] = "returned"
                 /\ warnings[p] = 1

C4_Witness ==
    \E p \in Procs :
        /\ pc[p] = "done"
        /\ Len(hlist[p]) = 2
        /\ Len(invoked[p]) = 2
        /\ invoked[p][2].raised
        /\ warnings[p] = 1

(* C5: with a store configured and a message that carries a sender
   identifier, the session is written to the store under that identifier
   after every handler call that returns, before the next handler or the
   return: there is one write per returned call, and the store then holds the
   session as that call left it. *)
C5_PersistAfterEveryCall ==
    \A p \in Procs :
        (Configured /\ InFlight(p) /\ hasattr_source(message[p])
            /\ pc[p] \in {"check", "loop", "done"}) =>
            /\ Len(OpsOf(p, "set")) = Len(ReturnedCalls(p))
            /\ ReturnedCalls(p) # <<>> =>
                 /\ to_binary(message[p].source) \in DOMAIN store
                 /\ store[to_binary(message[p].source)]
                      = ReturnedCalls(p)[Len(ReturnedCalls(p))].after

(* C6: the engine takes no lock around its read-modify-write of the session:
   whenever a dispatch persists, the store entry of its sender becomes that
   dispatch's own copy of the session, whatever the entry held by then (another
   dispatch's commit included), and no other entry changes.  Two concurrent
   dispatches for one sender can therefore lose an update (the witness). *)
C6_PersistOverwrites ==
    [][\A p \in Procs :
         (pc[p] = "persist" /\ pc'[p] = "check" /\ Configured /\ id[p].n # 0) =>
            /\ DOMAIN store' = DOMAIN store \cup {id[p]}
            /\ store'[id[p]] = session[p]
            /\ \A k \in DOMAIN store \ {id[p]} : store'[k] = store[k]]_vars

\* both dispatches read the same session, each handler counted once in its own
\* copy, both persisted: the store has advanced by one, not by two
C6_LostUpdate ==
    /\ pc[1] = "done" /\ pc[2] = "done"
    /\ id[1] = id[2]
    /\ id[1] \in DOMAIN store
    /\ Len(ReturnedCalls(1)) = 1 /\ Len(ReturnedCalls(2)) = 1
    /\ Len(OpsOf(1, "set")) = 1 /\ Len(OpsOf(2, "set")) = 1
    /\ ops[1][1].val = ops[2][1].val
    /\ ReturnedCalls(1)[1].after.n = ops[1][1].val.n + 1
    /\ ReturnedCalls(2)[1].after.n = ops[2][1].val.n + 1
    /\ store[id[1]].n = ops[1][1].val.n + 1

(* C7: every handler call gets the first n of [message, session], n being the
   arity recorded with the handler when it was registered. *)
C7_ArgsTruncatedToArity ==
    \A p \in Procs : \A k \in 1..Len(invoked[p]) :
        LET c == invoked[p][k]
            n == c.entry[2]
        IN /\ \E i \in 1..Len(regLog) : regLog[i].entry = c.entry
           /\ n = c.entry[1].nargs
           /\ n = 0 => c.args = <<>>
           /\ n = 1 => c.args = <<message[p]>>
           /\ n >= 2 => c.args = <<message[p], c.before>>

C7_Witness ==
    \E p \in Procs :
        /\ Len(invoked[p]) = 2
        /\ Len(invoked[p][1].args) = 2
        /\ invoked[p][1].args[2].type = "dict"
        /\ invoked[p][2].args = <<>>

(* C8: without a configured store, or with a message that has no sender
   identifier, the session is absent, arity-2 handlers get the absent session
   and the dispatch does no store operation; with both, the session is looked
   up under the sender's identifier exactly once, before the first call. *)
C8_SessionLookup ==
    \A p \in Procs :
        InFlight(p) =>
            IF Configured /\ hasattr_source(message[p])
            THEN /\ Len(OpsOf(p, "get")) = 1
                 /\ ops[p][1].op = "get"
                 /\ ops[p][1].at = 0
                 /\ ops[p][1].key = to_binary(message[p].source)
                 /\ id[p] = to_binary(message[p].source)
                 /\ session[p].type = "dict"
            ELSE /\ ops[p] = <<>>
                 /\ session[p] = PyNone
                 /\ \A k \in 1..Len(invoked[p]) :
                      Len(invoked[p][k].args) = 2
                         => invoked[p][k].args[2] = PyNone

C8_Witness ==
    \E p \in Procs :
        /\ Configured
        /\ DOMAIN store # {}
        /\ ~hasattr_source(message[p])
        /\ pc[p] = "done"
        /\ \E k \in 1..Len(invoked[p]) : invoked[p][k].args = <<message[p], PyNone>>

(* C9: add_handler with a value that is not callable raises and leaves every
   list as it was; with a callable it appends one entry at the end of the list
   of that type and touches no other list. *)
C9_RegisterValidates ==
    [][\A f \in Objects, t \in Keys :
         add_handler(f, t) =>
            IF callable(f)
            THEN /\ raised' = "none"
                 /\ handlers' = [handlers EXCEPT ![t] = Append(@, <<f, f.nargs>>)]
            ELSE /\ raised' # "none"
                 /\ handlers' = handlers]_vars

(* C10: add_handler with a type tag that is none of the nine message types
   nor 'all' raises and adds no key: the registry's keys are always the nine
   types and 'all'. *)
C10_UnknownTypeRejected ==
    /\ DOMAIN handlers = Keys
    /\ [][/\ DOMAIN handlers' = Keys
          /\ \A f \in Objects, t \in {"video"} :
                add_handler(f, t) => (raised' # "none" /\ handlers' = handlers)]_vars

C10_Witness ==
    /\ raised = "KeyError"
    /\ Len(regLog) >= 1
    /\ DOMAIN handlers = Keys

----------------------------------------------------------------------------
(* What the filter claims are stated with *)

\* the k-th handler call of caller p's dispatch, and the function it called
Call(p, k) == invoked[p][k]
Callee(p, k) == invoked[p][k].entry[1]

\* the call delegated to the function the wrapper wraps
Delegated(c) == c.inner # <<>>

\* the dispatch of caller p ended, and its k-th call was its last
EndedAt(p, k) == pc[p] = "done" /\ k = Len(invoked[p])

\* every entry of the registry that holds a function named `name` is under `type`
OnlyUnder(name, type) ==
    \A t \in DOMAIN handlers : \A i \in 1..Len(handlers[t]) :
        handlers[t][i][1].name = name => t = type

----------------------------------------------------------------------------
(* C11: a content filter with a literal L is a handler of 'text' messages
   that delegates to the wrapped handler exactly when the message content
   equals L (a content that merely starts with L does not match); when the
   content differs it yields None without raising and the dispatch goes on to
   the next handler.  End to end: with only a handler returning 'pong'
   filtered on 'ping', a message with content 'ping' is answered 'pong' and
   one with content 'pong' gets an empty result. *)
C11_LiteralFilter ==
    /\ OnlyUnder("_f", "text")
    /\ \A p \in Procs : \A k \in 1..Len(invoked[p]) :
          (Callee(p, k).name = "_f" /\ Callee(p, k).target.kind = "str") =>
            /\ message[p].type = "text"
            /\ Delegated(Call(p, k))
                  <=> message[p].content = Callee(p, k).target.value
            /\ Delegated(Call(p, k)) =>
                  /\ Call(p, k).inner[1].func = Callee(p, k).wrapped
                  /\ ~Call(p, k).raised =>
                        Call(p, k).ret
                          = handler_returns(Callee(p, k).wrapped, "text")
            /\ ~Delegated(Call(p, k)) =>
                  /\ ~Call(p, k).raised
                  /\ Call(p, k).ret = PyNone
                  /\ EndedAt(p, k) => k = Len(hlist[p])
    /\ \A p \in Procs :
          (pc[p] = "done" /\ hlist[p] = <<<<filter_wrapper(LitPing, h1), 2>>>>) =>
            /\ message[p].content = "ping" => result[p] = PyStr("pong")
            /\ message[p].content = "pong" => IsEmptyValue(result[p])

C11_Witness ==
    /\ pc[1] = "done"
    /\ Len(invoked[1]) = 2
    /\ Callee(1, 1) = filter_wrapper(LitPing, h1)
    /\ message[1].content = "ping pong"
    /\ ~Delegated(Call(1, 1))
    /\ Delegated(Call(1, 2))

----------------------------------------------------------------------------
\* the registry after the one-target filter was applied to f for args[i],
\* args[i+1], ... in turn, each application a call of its own (one that
\* raises leaves the registry as it is)
RECURSIVE ApplySingles(_, _, _, _)
ApplySingles(h, args, f, i) ==
    IF i > Len(args) THEN h
    ELSE ApplySingles(filter_result(h, <<args[i]>>, f).handlers, args, f, i + 1)

AllLiterals(args) == \A i \in 1..Len(args) : is_string(args[i])

(* C12: filter applied to f with several literals L1..Ln (n > 1) leaves the
   registry as applying the one-literal filter to f once per literal, in
   order, does: for a function f exactly n entries are appended to the
   'text' list, the wrapper of f for L1, ..., for Ln, and nothing else
   changes, so every later dispatch resolves the same lists. *)
C12_MultiLiteralAsSingles ==
    [][\A args \in TargetLists, f \in Objects :
         (Len(args) > 1 /\ AllLiterals(args) /\ filter(args, f)) =>
           /\ handlers' = ApplySingles(handlers, args, f, 1)
           /\ \A T \in KnownTypes :
                 get_handlers(handlers', T)
                   = get_handlers(ApplySingles(handlers, args, f, 1), T)
           /\ f \in Functions =>
                 handlers' = [handlers EXCEPT !["text"] =
                                @ \o [i \in 1..Len(args) |->
                                        <<filter_wrapper(args[i], f), 2>>]]
      ]_vars

C12_Witness ==
    /\ lastCall = [api |-> "filter", args |-> <<LitPing, LitPong>>, f |-> h1]
    /\ raised = "none"
    /\ handlers["text"] = <<<<filter_wrapper(LitPing, h1), 2>>,
                            <<filter_wrapper(LitPong, h1), 2>>>>
    /\ pc[1] = "done"
    /\ message[1].type = "text" /\ message[1].content = "pong"
    /\ result[1] = PyStr("pong")

----------------------------------------------------------------------------
(* C13: a keyed-click filter for key K is a handler of 'click' messages that
   calls the wrapped handler only when message.key equals K; for any other
   key it yields None without calling the wrapped handler and without
   raising, and the dispatch goes on to the next handler. *)
C13_KeyClick ==
    /\ OnlyUnder("onclick", "click")
    /\ \A p \in Procs : \A k \in 1..Len(invoked[p]) :
          Callee(p, k).name = "onclick" =>
            /\ message[p].type = "click"
            /\ Delegated(Call(p, k)) <=> message[p].key = Callee(p, k).key
            /\ Delegated(Call(p, k)) =>
                  /\ Call(p, k).inner[1].func = Callee(p, k).wrapped
                  /\ ~Call(p, k).raised =>
                        Call(p, k).ret
                          = handler_returns(Callee(p, k).wrapped, "click")
            /\ ~Delegated(Call(p, k)) =>
                  /\ ~Call(p, k).raised
                  /\ Call(p, k).ret = PyNone
                  /\ EndedAt(p, k) => k = Len(hlist[p])

C13_Witness ==
    /\ pc[1] = "done"
    /\ Len(invoked[1]) = 2
    /\ Callee(1, 1) = key_click_wrapper("MENU_A", h1)
    /\ message[1].key = "MENU_B"
    /\ ~Delegated(Call(1, 1))
    /\ Call(1, 1).ret = PyNone
    /\ Callee(1, 2) = h2

----------------------------------------------------------------------------
ValidTarget(t) == is_string(t) \/ has_match(t)

SomeInvalid(args) == \E i \in 1..Len(args) : ~ValidTarget(args[i])

(* C14: every application of the content filter in which one of the targets
   is neither a string nor an object with a match operation fails with a
   TypeError raised by the registration itself, whether the invalid target
   is the only one or one of several; no handler is registered for the
   invalid target. *)
C14_InvalidTargetRaises ==
    [][\A args \in TargetLists, f \in Objects :
         (SomeInvalid(args) /\ filter(args, f)) =>
           /\ raised' = "TypeError"
           /\ \A t \in DOMAIN handlers' : \A i \in 1..Len(handlers'[t]) :
                 handlers'[t][i][1].name = "_f"
                   => ValidTarget(handlers'[t][i][1].target)
      ]_vars

C14_Witness ==
    /\ lastCall = [api |-> "filter", args |-> <<LitPing, BadTarget>>, f |-> h1]
    /\ raised = "TypeError"

----------------------------------------------------------------------------
\* the dispatch of caller p has gone past the persist step of its k-th call
PastPersist(p, k) == k < Len(invoked[p]) \/ pc[p] \in {"check", "done"}

(* C15: when a filter adapter matches, the wrapped handler of arity n in
   {0, 1, 2} is called with exactly the first n of [message, session], the
   arguments it would get if registered directly, session being the one the
   dispatch resolved; the call ends as the direct call would, and the session
   as the handler left it is persisted under the rule of direct handlers. *)
C15_AdapterPassesArgs ==
    \A p \in Procs : \A k \in 1..Len(invoked[p]) :
        (is_wrapper(Callee(p, k)) /\ Delegated(Call(p, k))) =>
          LET c == Call(p, k)
              f == Callee(p, k).wrapped
              direct == call_plain(f, build_args(message[p], c.before, f.nargs),
                                   message[p], c.before)
          IN /\ c.args = <<message[p], c.before>>
             /\ c.inner[1].args = build_args(message[p], c.before, f.nargs)
             /\ f.nargs = 0 => c.inner[1].args = <<>>
             /\ f.nargs = 1 => c.inner[1].args = <<message[p]>>
             /\ f.nargs = 2 => c.inner[1].args = <<message[p], c.before>>
             /\ c.raised = direct.raised
             /\ c.ret = direct.ret
             /\ c.after = direct.after
             /\ (~c.raised /\ PastPersist(p, k)
                  /\ persist_guard(config.SESSION_STORAGE, id[p])) =>
                   \E j \in 1..Len(ops[p]) :
                       ops[p][j] = [op |-> "set", key |-> id[p],
                                    val |-> c.after, at |-> k]

C15_Witness ==
    /\ pc[1] = "done"
    /\ Len(invoked[1]) >= 1
    /\ Callee(1, 1) = filter_wrapper(RxPing, h2)
    /\ message[1].content = "ping pong"
    /\ Call(1, 1).inner = <<[func |-> h2, args |-> <<message[1], PyDict(1)>>]>>
    /\ Call(1, 1).after = PyDict(2)
    /\ store[to_binary("u1")] = PyDict(2)

----------------------------------------------------------------------------
\* a <= b in lexicographic order: they agree on their first k code points,
\* and there a ends or b goes on with a greater code point
LexLeq(a, b) ==
    \E k \in 0..Min(Len(a), Len(b)) :
        /\ \A i \in 1..k : a[i] = b[i]
        /\ k = Len(a) \/ (k < Len(b) /\ a[k + 1] < b[k + 1])

Perms3 == {q \in [1..3 -> 1..3] : {q[1], q[2], q[3]} = {1, 2, 3}}

\* the three strings joined in non-decreasing order
SortedConcat(three) ==
    LET q == CHOOSE r \in Perms3 :
                 /\ LexLeq(three[r[1]].repr, three[r[2]].repr)
                 /\ LexLeq(three[r[2]].repr, three[r[3]].repr)
    IN three[q[1]].repr \o three[q[2]].repr \o three[q[3]].repr

(* C16: with a string for shared secret, timestamp and nonce, check_signature
   returns a boolean and never raises; it returns true exactly when the
   signature is the lowercase SHA-1 hex digest of the three strings joined
   in lexicographically sorted order, false for any other signature; and
   the result is the same whichever of the three strings is the secret,
   the timestamp or the nonce. *)
C16_SignatureCheck ==
    (sigCall.state # "none" /\ config.TOKEN.type = "str") =>
        LET three == <<config.TOKEN, sigCall.timestamp, sigCall.nonce>>
        IN /\ sigCall.state = "returned"
           /\ sigCall.value \in BOOLEAN
           /\ sigCall.value
                <=> sigCall.signature
                      = [type |-> "str", repr |-> SortedConcat(three),
                         n |-> 40, hex |-> "lower"]
           /\ \A q \in Perms3 :
                 check_signature_result(three[q[1]], three[q[2]], three[q[3]],
                                        sigCall.signature)
                   = [error |-> "none", value |-> sigCall.value]

C16_Witness ==
    /\ sigCall.state = "returned"
    /\ sigCall.value = TRUE
    /\ config.TOKEN.type = "str"
    /\ ~LexLeq(config.TOKEN.repr, sigCall.timestamp.repr)
    /\ ~LexLeq(sigCall.timestamp.repr, sigCall.nonce.repr)
    /\ config.TOKEN.repr \o sigCall.timestamp.repr \o sigCall.nonce.repr
         # sigCall.signature.repr

----------------------------------------------------------------------------
\* the list caller p resolved is in place: its dispatch is past line 212
Resolved(p) == pc[p] \notin {"idle", "resolve"}

(* C17: no step of a dispatch changes the registry; the list a dispatch
   walks is the one get_handlers gave when the dispatch resolved it, and no
   registration made while the dispatch is in flight changes it: the handlers
   the dispatch calls are, in order, the first entries of that list.  A
   registration shows only in dispatches that resolve after it. *)
C17_DispatchFrame ==
    [][\A p \in Procs :
         /\ pc' # pc => handlers' = handlers
         /\ (pc[p] = "resolve" /\ pc'[p] = "loop") =>
               hlist'[p] = get_handlers(handlers, message[p].type)
         /\ (Resolved(p) /\ pc'[p] # "idle") => hlist'[p] = hlist[p]
         /\ pc'[p] # "idle" =>
               /\ Len(invoked'[p]) <= Len(hlist'[p])
               /\ \A k \in 1..Len(invoked'[p]) :
                     invoked'[p][k].entry = hlist'[p][k]
      ]_vars

C17_Witness ==
    /\ pc[1] = "done"
    /\ Len(hlist[1]) >= 1
    /\ CalledEntries(1) = hlist[1]
    /\ Len(get_handlers(handlers, message[1].type)) > Len(hlist[1])
    /\ get_handlers(handlers, message[1].type)[1] # hlist[1][1]

----------------------------------------------------------------------------
\* the position of the first target that is neither string nor pattern
FirstInvalid(args) ==
    CHOOSE i \in 1..Len(args) :
        ~ValidTarget(args[i]) /\ \A j \in 1..(i - 1) : ValidTarget(args[j])

(* C18 as claimed: a content-filter registration that fails leaves the
   registry unchanged, also when the invalid target comes after valid ones. *)
C18_AllOrNothing ==
    [][\A args \in TargetLists, f \in Objects :
         (filter(args, f) /\ raised' # "none") => handlers' = handlers
      ]_vars

(* C18 as the code has it: a content-filter registration that fails has
   registered the handlers for the valid targets that precede the first
   invalid one, in order, and nothing for that target or any after it; the
   registry is unchanged when no valid target precedes the invalid one, and
   when the handler itself cannot be taken apart by getargspec. *)
C18_FailedFilterKeepsPrefix ==
    [][\A args \in TargetLists, f \in Objects :
         (filter(args, f) /\ raised' # "none") =>
           IF f \in Functions /\ SomeInvalid(args)
           THEN handlers' = [handlers EXCEPT !["text"] =
                               @ \o [i \in 1..(FirstInvalid(args) - 1) |->
                                       <<filter_wrapper(args[i], f), 2>>]]
           ELSE handlers' = handlers
      ]_vars

C18_Witness ==
    /\ lastCall = [api |-> "filter", args |-> <<LitPing, BadTarget>>, f |-> h1]
    /\ raised = "TypeError"
    /\ handlers["text"] = <<<<filter_wrapper(LitPing, h1), 2>>>>
    /\ regLog = <<[type |-> "text", entry |-> <<filter_wrapper(LitPing, h1), 2>>]>>

----------------------------------------------------------------------------
\* the store entry of the sender of caller p's message
SenderEntry(p) == store[to_binary(message[p].source)]

(* C19: when a handler raises in a dispatch with a store and a sender
   identifier, nothing is written for the raising call and nothing written
   before is taken back: the sender's store entry is the session as the last
   handler that returned left it, or as it was looked up when the first
   handler called is the one that raises. *)
C19_RaiseKeepsLastPersist ==
    \A p \in Procs :
        (SomeCallRaised(p) /\ bool(config.SESSION_STORAGE)
         /\ hasattr_source(message[p])) =>
            /\ \A j \in 1..Len(ops[p]) :
                  ops[p][j].op = "set" => ops[p][j].at < Len(invoked[p])
            /\ SenderEntry(p)
                 = IF Len(invoked[p]) = 1 THEN ops[p][1].val
                   ELSE invoked[p][Len(invoked[p]) - 1].after

----------------------------------------------------------------------------
\* the store keys whose entry a step creates or changes
Touched == {key \in DOMAIN store' : key \notin DOMAIN store \/ store'[key] # store[key]}

(* C20: a dispatch reads and writes only the store entry keyed by the sender
   of its message: every step that creates or changes an entry is a step of
   a dispatch whose message comes from that entry's sender, no entry is ever
   removed, and every store operation of a dispatch, the persists as the
   lookup, uses the one key made from message.source. *)
C20_OnlyOwnEntry ==
    [][/\ DOMAIN store \subseteq DOMAIN store'
       /\ \A key \in Touched :
             \E p \in Procs :
                 /\ pc'[p] # pc[p]
                 /\ hasattr_source(message'[p])
                 /\ key = to_binary(message'[p].source)
       /\ \A p \in Procs : \A j \in 1..Len(ops'[p]) :
             /\ ops'[p][j].key = to_binary(message'[p].source)
             /\ ops'[p][j].key = ops'[p][1].key
             /\ ops'[p][1].op = "get"
      ]_vars

C20_Witness ==
    /\ pc[1] = "done" /\ message[1].source = "u1"
    /\ pc[2] = "done" /\ message[2].source = "u2"
    /\ Len(OpsOf(1, "set")) >= 1
    /\ Len(OpsOf(2, "set")) >= 1
    /\ store[to_binary("u1")] = PyDict(1)
    /\ store[to_binary("u2")] = PyDict(1)

====
